---- MODULE Spec2Model ----
(***************************************************************************)
(* Model of server.py: the local preview server's request handler          *)
(* (RequestHandler.do_GET / do_POST / _proxy / translate_path) and the     *)
(* start-up configuration it reads (upstream clients, redirect table).     *)
(*                                                                         *)
(* Strings the code inspects character by character (request paths, file   *)
(* system paths) are sequences of one-character strings, so startswith,    *)
(* endswith, rsplit, split, unquote and normpath are computed as Python    *)
(* computes them.  Header names and values are atomic strings.             *)
(***************************************************************************)
EXTENDS Naturals, Sequences, FiniteSets

VARIABLES
    PORTAL_CLIENT_CLASS,  \* http.client class name for the portal, or None
    PORTAL_HOST,          \* portal host, or None
    SEARCH_CLIENT_CLASS,  \* http.client class name for search, or None
    SEARCH_HOST,          \* search host, or None
    redirects,            \* httpd.redirects: dict path -> target
    upstream,             \* how the upstream behaves for this exchange
    fs,                   \* what the file system holds at the translated path
    command,              \* request method
    raw_path,             \* the request target as received
    path,                 \* self.path (do_GET may rewrite it)
    headers,              \* self.headers: list of (name, value) as received
    pc,                   \* "ready" before the handler ran, "done" after
    delegated,            \* role _proxy was called for, or "none"
    status,               \* status code sent to the client, 0 if none
    sent_headers,         \* headers written with send_header
    wbody,                \* what was written to wfile after the headers
    calls,                \* outbound requests attempted on an upstream
    raised,               \* an exception left the handler
    file                  \* result of translate_path, <<>> if not called

vars == <<PORTAL_CLIENT_CLASS, PORTAL_HOST, SEARCH_CLIENT_CLASS, SEARCH_HOST,
          redirects, upstream, fs, command, raw_path, path, headers, pc,
          delegated, status, sent_headers, wbody, calls, raised, file>>

None == "None"

----------------------------------------------------------------------------
(* Python str operations on character sequences                            *)

Contains(s, c) == \E i \in 1..Len(s) : s[i] = c

FirstIndex(s, c) == CHOOSE i \in 1..Len(s) : s[i] = c /\ \A j \in 1..(i-1) : s[j] # c

LastIndex(s, c) == CHOOSE i \in 1..Len(s) : s[i] = c /\ \A j \in (i+1)..Len(s) : s[j] # c

\* str.startswith(p)
startswith(s, p) == Len(p) <= Len(s) /\ SubSeq(s, 1, Len(p)) = p

\* str.endswith(p)
endswith(s, p) == Len(p) <= Len(s) /\ SubSeq(s, Len(s) - Len(p) + 1, Len(s)) = p

\* str.replace(a, b) for single characters
replace(s, a, b) == [i \in 1..Len(s) |-> IF s[i] = a THEN b ELSE s[i]]

\* s.split(c, 1)[0]
split_first(s, c) == IF Contains(s, c) THEN SubSeq(s, 1, FirstIndex(s, c) - 1) ELSE s

\* s.rsplit(c, 1)[1], for s containing c
rsplit_last(s, c) == SubSeq(s, LastIndex(s, c) + 1, Len(s))

RECURSIVE rstrip(_)
\* str.rstrip(): trailing whitespace removed
rstrip(s) ==
    IF s # <<>> /\ s[Len(s)] \in {" ", "\t"} THEN rstrip(SubSeq(s, 1, Len(s) - 1)) ELSE s

RECURSIVE split(_, _)
\* str.split(c): the pieces between the separators, empty ones included
split(s, c) ==
    IF ~Contains(s, c) THEN <<s>>
    ELSE LET i == FirstIndex(s, c)
         IN  <<SubSeq(s, 1, i - 1)>> \o split(SubSeq(s, i + 1, Len(s)), c)

RECURSIVE slash_join(_)
\* '/'.join(comps)
slash_join(comps) ==
    IF comps = <<>> THEN <<>>
    ELSE IF Len(comps) = 1 THEN comps[1]
    ELSE comps[1] \o <<"/">> \o slash_join(Tail(comps))

\* filter(None, words)
filter_nonempty(words) == SelectSeq(words, LAMBDA w : w # <<>>)

----------------------------------------------------------------------------
(* urllib.parse.unquote                                                    *)

HexDigits == {"0", "1", "2", "3", "4", "5", "6", "7", "8", "9",
              "a", "b", "c", "d", "e", "f", "A", "B", "C", "D", "E", "F"}

\* the character a %XX escape stands for; escapes other than the ones
\* listed decode to some character that is no separator, dot or escape
hex_char(h1, h2) ==
    CASE h1 = "2" /\ h2 \in {"e", "E"} -> "."
      [] h1 = "2" /\ h2 \in {"f", "F"} -> "/"
      [] h1 = "2" /\ h2 = "5" -> "%"
      [] h1 = "3" /\ h2 \in {"a", "A"} -> ":"
      [] h1 = "3" /\ h2 \in {"f", "F"} -> "?"
      [] OTHER -> "*"

RECURSIVE unquote(_)
unquote(s) ==
    IF s = <<>> THEN <<>>
    ELSE IF s[1] = "%" /\ Len(s) >= 3 /\ s[2] \in HexDigits /\ s[3] \in HexDigits
         THEN <<hex_char(s[2], s[3])>> \o unquote(SubSeq(s, 4, Len(s)))
    ELSE <<s[1]>> \o unquote(Tail(s))

----------------------------------------------------------------------------
(* posixpath / os.path                                                     *)

curdir == <<".">>
pardir == <<".", ".">>

RECURSIVE normpath_comps(_, _, _)
\* the loop of posixpath.normpath over the components
normpath_comps(comps, new_comps, initial_slashes) ==
    IF comps = <<>> THEN new_comps
    ELSE LET comp == Head(comps)
         IN  IF comp \in {<<>>, curdir}
             THEN normpath_comps(Tail(comps), new_comps, initial_slashes)
             ELSE IF comp # pardir
                     \/ (initial_slashes = 0 /\ new_comps = <<>>)
                     \/ (new_comps # <<>> /\ new_comps[Len(new_comps)] = pardir)
             THEN normpath_comps(Tail(comps), Append(new_comps, comp), initial_slashes)
             ELSE IF new_comps # <<>>
             THEN normpath_comps(Tail(comps), SubSeq(new_comps, 1, Len(new_comps) - 1),
                                 initial_slashes)
             ELSE normpath_comps(Tail(comps), new_comps, initial_slashes)

\* posixpath.normpath
normpath(p) ==
    IF p = <<>> THEN curdir
    ELSE LET initial_slashes ==
                 IF ~startswith(p, <<"/">>) THEN 0
                 ELSE IF startswith(p, <<"/", "/">>) /\ ~startswith(p, <<"/", "/", "/">>)
                 THEN 2 ELSE 1
             joined == slash_join(normpath_comps(split(p, "/"), <<>>, initial_slashes))
             res == [i \in 1..initial_slashes |-> "/"] \o joined
         IN  IF res = <<>> THEN curdir ELSE res

\* posixpath.dirname
dirname(p) ==
    IF ~Contains(p, "/") THEN <<>>
    ELSE LET head == SubSeq(p, 1, LastIndex(p, "/"))
         IN  IF \A i \in 1..Len(head) : head[i] = "/" THEN head
             ELSE SubSeq(head, 1, CHOOSE n \in 1..Len(head) :
                           head[n] # "/" /\ \A j \in (n+1)..Len(head) : head[j] = "/")

\* posixpath.join(a, b)
path_join(a, b) ==
    IF startswith(b, <<"/">>) THEN b
    ELSE IF a = <<>> \/ endswith(a, <<"/">>) THEN a \o b
    ELSE a \o <<"/">> \o b

RECURSIVE common_prefix_len(_, _)
common_prefix_len(a, b) ==
    IF a = <<>> \/ b = <<>> \/ Head(a) # Head(b) THEN 0
    ELSE 1 + common_prefix_len(Tail(a), Tail(b))

\* posixpath.relpath(p, start), both absolute
relpath(p, start) ==
    LET start_list == filter_nonempty(split(normpath(start), "/"))
        path_list  == filter_nonempty(split(normpath(p), "/"))
        i == common_prefix_len(start_list, path_list)
        rel_list == [k \in 1..(Len(start_list) - i) |-> pardir]
                    \o SubSeq(path_list, i + 1, Len(path_list))
    IN  IF rel_list = <<>> THEN curdir ELSE slash_join(rel_list)

----------------------------------------------------------------------------
(* module-level configuration                                              *)

\* the directory server.py lives in
DIR == <<"/", "s", "r", "v">>

STATIC_ASSETS_DIR == path_join(DIR, <<"s", "t", "a", "t", "i", "c", "-", "a", "s", "s", "e", "t", "s">>)

filetypes == {
    <<"h","t","m","l">>, <<"p","d","f">>, <<"j","p","g">>, <<"s","v","g">>,
    <<"p","n","g">>, <<"g","i","f">>, <<"c","s","s">>, <<"j","s">>,
    <<"m","u","s","t","a","c","h","e">>, <<"j","s","o","n">>, <<"b","u","l","k">>,
    <<"m","a","p">>, <<"t","t","f">>, <<"e","o","t">>, <<"w","o","f","f">>,
    <<"w","o","f","f","2">> }

AUTH_PATH_PREFIX == <<"/","_","a","p","i","/","a","u","t","h","e","n","t","i","c","a","t","e">>

HISTORICAL_VERSIONS_PATH_PREFIXES ==
    << <<"/","_","p","u","b","l","i","c","a","t","i","o","n">>,
       <<"/","_","d","a","t","e">>,
       <<"/","_","c","o","m","p","a","r","e">> >>

\* the portal prefixes with /_api forgotten
PORTAL_PATH_PREFIXES_without_api ==
    << <<"/","_","p","o","r","t","a","l">> >> \o HISTORICAL_VERSIONS_PATH_PREFIXES

PORTAL_PATH_PREFIXES ==
    << <<"/","_","p","o","r","t","a","l">>, <<"/","_","a","p","i">> >>
    \o HISTORICAL_VERSIONS_PATH_PREFIXES

SEARCH_PATH_PREFIX == <<"/","_","s","e","a","r","c","h">>

\* str.startswith(tuple)
startswith_any(s, prefixes) == \E i \in 1..Len(prefixes) : startswith(s, prefixes[i])

----------------------------------------------------------------------------
(* RequestHandler.translate_path                                           *)

\* os.path.isdir on this file system: the server's own directory always is one
isdir(p, fsk) == normpath(p) = DIR \/ fsk = "dir"

\* os.path.exists on this file system
exists(p, fsk) == isdir(p, fsk) \/ fsk = "file"

\* the skip test without the check for "." and ".."
ignored_word_dirname_only(word) == dirname(word) # <<>>

\* a component the loop of translate_path skips
ignored_word(word) == dirname(word) # <<>> \/ word \in {curdir, pardir}

RECURSIVE join_words(_, _)
\* the loop over words: os.path.join for every component kept
join_words(p, words) ==
    IF words = <<>> THEN p
    ELSE IF ignored_word(Head(words)) THEN join_words(p, Tail(words))
    ELSE join_words(path_join(p, Head(words)), Tail(words))

\* the path as normalised before it is split into words
translate_normalise(p) == normpath(unquote(p))

translate_path(p0, fsk) ==
    LET p1 == replace(p0, ":", "~")
        p2 == split_first(p1, "?")
        p3 == split_first(p2, "#")
        trailing_slash == endswith(rstrip(p3), <<"/">>)
        p4 == translate_normalise(p3)
        words == filter_nonempty(split(p4, "/"))
        p5 == join_words(DIR, words)
        p6 == IF trailing_slash THEN p5 \o <<"/">> ELSE p5
    IN  IF isdir(p6, fsk) \/ endswith(p6, <<".","h","t","m","l">>) \/ exists(p6, fsk)
        THEN p6
        ELSE path_join(STATIC_ASSETS_DIR, relpath(p6, DIR))

----------------------------------------------------------------------------
(* start-up: get_http_client_info and the redirect table                   *)

\* an upstream URL is <<scheme, host>>; <<>> is "no URL given"
get_http_client_info(url) ==
    IF url = <<>> THEN <<None, None>>
    ELSE LET scheme == url[1]
             host == url[2]
             Client == IF scheme = "http" THEN "HTTPConnection" ELSE "HTTPSConnection"
         IN  <<Client, host>>

RECURSIVE load_redirects(_)
\* {r[0]: r[1] for r in raw_redirects}: a later pair replaces an earlier one
load_redirects(raw_redirects) ==
    IF raw_redirects = <<>> THEN <<>>
    ELSE LET n == Len(raw_redirects)
             r == raw_redirects[n]
             before == load_redirects(SubSeq(raw_redirects, 1, n - 1))
         IN  [k \in DOMAIN before \cup {r[1]} |-> IF k = r[1] THEN r[2] ELSE before[k]]

\* httpd.socket.getsockname() with the default --bind and --port
server_address == <<"127.0.0.1", "8000">>

----------------------------------------------------------------------------
(* self.headers: an email.message.Message                                  *)

\* str.lower() on the header names that occur
lower(name) ==
    CASE name \in {"Host", "host", "HOST"} -> "host"
      [] name \in {"Accept", "accept"} -> "accept"
      [] name \in {"Content-Length", "content-length"} -> "content-length"
      [] name \in {"Transfer-Encoding", "transfer-encoding"} -> "transfer-encoding"
      [] name \in {"Connection", "connection"} -> "connection"
      [] name \in {"Content-Type", "content-type"} -> "content-type"
      [] OTHER -> name

\* Message.keys()
msg_keys(hs) == {hs[i][1] : i \in 1..Len(hs)}

\* Message.__getitem__ / Message.get: the first value under that name,
\* names compared without case; None when there is none
msg_get(hs, name) ==
    IF \E i \in 1..Len(hs) : lower(hs[i][1]) = lower(name)
    THEN hs[CHOOSE i \in 1..Len(hs) :
                /\ lower(hs[i][1]) = lower(name)
                /\ \A j \in 1..(i-1) : lower(hs[j][1]) # lower(name)][2]
    ELSE None

\* dict.pop(key, None)
dict_pop(d, key) == [k \in DOMAIN d \ {key} |-> d[k]]

\* dict.update(other)
dict_update(d, other) ==
    [k \in DOMAIN d \cup DOMAIN other |-> IF k \in DOMAIN other THEN other[k] ELSE d[k]]

\* int(s) for the Content-Length values that occur
int_of(s) ==
    CASE s = "0" -> 0
      [] s = "2" -> 2
      [] OTHER -> 0

\* the bytes waiting on rfile after the request headers
rfile == <<"u", "=", "1">>

\* rfile.read(n)
rfile_read(n) == SubSeq(rfile, 1, IF n <= Len(rfile) THEN n ELSE Len(rfile))

----------------------------------------------------------------------------
(* RequestHandler._proxy                                                   *)

_METHODS_EXPECTING_BODY == {"PATCH", "POST", "PUT"}

\* what a handler leaves behind
Outcome(d, st, sh, wb, cs, r, f, p) ==
    [delegated |-> d, status |-> st, sent_headers |-> sh, wbody |-> wb,
     calls |-> cs, raised |-> r, file |-> f, path |-> p]

\* the configuration check left out
not_configured_never(Client) == FALSE

\* "if Client is None"
not_configured(Client) == Client = None

\* req_headers as built before client.request
request_headers(hs) ==
    LET copied == [k \in msg_keys(hs) |-> msg_get(hs, k)]
        popped == dict_pop(copied, "Host")
    IN  dict_update(popped,
            [k \in {"X-Forwarded-For", "X-Forwarded-Host", "X-Forwarded-Proto"} |->
                CASE k = "X-Forwarded-For" -> "self.address_string()"
                  [] k = "X-Forwarded-Host" -> msg_get(hs, "Host")
                  [] k = "X-Forwarded-Proto" -> "http"])

\* the Host line http.client puts on the wire: the caller's own "host"
\* header in any case if it gave one, else the host connected to
wire_host(req_headers, host) ==
    IF \E k \in DOMAIN req_headers : lower(k) = "host"
    THEN req_headers[CHOOSE k \in DOMAIN req_headers : lower(k) = "host"]
    ELSE host

\* urllib.parse.urlunsplit: unpacks exactly five components
urlunsplit(components) ==
    IF Len(components) # 5 THEN [raised |-> TRUE, url |-> <<>>]
    ELSE [raised |-> FALSE, url |-> <<components[1], "://", components[2]>>]

\* type(client).__name__[:-10].lower()
client_scheme(Client) == IF Client = "HTTPConnection" THEN "http" ELSE "https"

\* "if k not in ('Transfer-Encoding', 'Connection')"
relayed(k) == k \notin {"Transfer-Encoding", "Connection"}

\* the except branch of _proxy
proxy_failed(Client, host, call, role, p) ==
    LET scheme == client_scheme(Client)
        u == urlunsplit(<<host, scheme, "", "">>)
    IN  IF u.raised
        THEN Outcome(role, 500, <<>>, <<>>, <<call>>, TRUE, <<>>, p)
        ELSE Outcome(role, 500, <<>>, <<"Something went wrong proxying to ">> \o u.url,
                     <<call>>, FALSE, <<>>, p)

\* the else branch of _proxy
proxy_relay(resp, call, role, p) ==
    Outcome(role, resp.code,
            SelectSeq(resp.headers, LAMBDA h : relayed(h[1])),
            resp.body, <<call>>, FALSE, <<>>, p)

_proxy(Client, host, upstream_name, method, body, hs, p, up) ==
    IF not_configured(Client)
    THEN Outcome(upstream_name, 400, <<>>,
                 <<"Local server not configured to proxy ", upstream_name,
                   ". Please run with the --", upstream_name, "-proxy-url flag ">>,
                 <<>>, FALSE, <<>>, p)
    ELSE LET req_headers == request_headers(hs)
             call == [client |-> Client, host |-> host, method |-> method, path |-> p,
                      headers |-> req_headers,
                      wire_host |-> wire_host(req_headers, host),
                      body |-> IF method \in _METHODS_EXPECTING_BODY THEN body ELSE <<>>]
         IN  IF \E k \in DOMAIN req_headers : req_headers[k] = None
             \* putheader rejects a None value before anything is sent
             THEN Outcome(upstream_name, 0, <<>>, <<>>, <<>>, TRUE, <<>>, p)
             ELSE IF up.outcome = "request_fails"
             THEN Outcome(upstream_name, 0, <<>>, <<>>, <<call>>, TRUE, <<>>, p)
             ELSE IF up.outcome = "response_fails"
             THEN proxy_failed(Client, host, call, upstream_name, p)
             ELSE proxy_relay(up, call, upstream_name, p)

----------------------------------------------------------------------------
(* RequestHandler.do_GET and do_POST                                       *)

\* "if redirect:" for redirect = self.server.redirects.get(self.path)
redirect_found(table, p) == p \in DOMAIN table /\ table[p] # <<>>

\* the default-extension test taking any dot for an extension
needs_html_any_dot(p) == ~endswith(p, <<"/">>) /\ ~Contains(p, ".")

\* the default-extension test of do_GET
needs_html(p) ==
    /\ ~endswith(p, <<"/">>)
    /\ (~Contains(p, ".") \/ rsplit_last(p, ".") \notin filetypes)

\* SimpleHTTPRequestHandler.do_GET: resolve self.path and serve the file
static_GET(p, fsk) ==
    LET f == translate_path(p, fsk)
        st == IF fsk = "dir" /\ ~endswith(split_first(split_first(p, "?"), "#"), <<"/">>)
              THEN 301
              ELSE IF fsk = "missing" THEN 404 ELSE 200
    IN  Outcome("none", st, <<>>, <<>>, <<>>, FALSE, f, p)

GET_outcome(p, hs, table, up, fsk, pc_class, p_host, s_class, s_host) ==
    IF startswith_any(p, PORTAL_PATH_PREFIXES)
    THEN _proxy(pc_class, p_host, "portal", "GET", <<>>, hs, p, up)
    ELSE IF startswith(p, SEARCH_PATH_PREFIX)
    THEN _proxy(s_class, s_host, "search", "GET", <<>>, hs, p, up)
    ELSE IF redirect_found(table, p)
    THEN Outcome("none", 302,
                 << <<"Location",
                      <<"http://", server_address[1], ":", server_address[2]>> \o table[p]>> >>,
                 <<>>, <<>>, FALSE, <<>>, p)
    ELSE static_GET(IF needs_html(p) THEN p \o <<".","h","t","m","l">> ELSE p, fsk)

POST_outcome(p, hs, up, pc_class, p_host) ==
    IF p = AUTH_PATH_PREFIX
    THEN IF msg_get(hs, "Content-Length") = None
         \* int(None) raises
         THEN Outcome("none", 0, <<>>, <<>>, <<>>, TRUE, <<>>, p)
         ELSE LET content_len == int_of(msg_get(hs, "Content-Length"))
                  body == rfile_read(content_len)
              IN  _proxy(pc_class, p_host, "portal", "POST", body, hs, p, up)
    ELSE Outcome("none", 0, <<>>, <<>>, <<>>, FALSE, <<>>, p)

Finish(o) ==
    /\ pc' = "done"
    /\ delegated' = o.delegated
    /\ status' = o.status
    /\ sent_headers' = o.sent_headers
    /\ wbody' = o.wbody
    /\ calls' = o.calls
    /\ raised' = o.raised
    /\ file' = o.file
    /\ path' = o.path
    /\ UNCHANGED <<PORTAL_CLIENT_CLASS, PORTAL_HOST, SEARCH_CLIENT_CLASS, SEARCH_HOST,
                   redirects, upstream, fs, command, raw_path, headers>>

do_GET ==
    /\ pc = "ready"
    /\ command = "GET"
    /\ Finish(GET_outcome(path, headers, redirects, upstream, fs,
                          PORTAL_CLIENT_CLASS, PORTAL_HOST,
                          SEARCH_CLIENT_CLASS, SEARCH_HOST))

do_POST ==
    /\ pc = "ready"
    /\ command = "POST"
    /\ Finish(POST_outcome(path, headers, upstream, PORTAL_CLIENT_CLASS, PORTAL_HOST))

Next == do_GET \/ do_POST

----------------------------------------------------------------------------
(* the states a handler can be constructed in                              *)

MaxInHeaders == 2
MaxUpHeaders == 2
MaxRedirects == 2
MaxAtoms == 3

SeqsUpTo(S, n) == UNION {[1..k -> S] : k \in 0..n}

RECURSIVE concat(_)
concat(ss) == IF ss = <<>> THEN <<>> ELSE Head(ss) \o concat(Tail(ss))

PortalURLs == {<<>>, <<"http", "portal.test">>, <<"https", "portal.test">>}
SearchURLs == {<<>>, <<"http", "search.test">>, <<"https", "search.test">>}

Commands == {"GET", "POST"}

\* request targets under every reserved prefix, and one under none
ReservedPaths ==
    LET prefixes == {PORTAL_PATH_PREFIXES[i] : i \in 1..Len(PORTAL_PATH_PREFIXES)}
                    \cup {AUTH_PATH_PREFIX, SEARCH_PATH_PREFIX, <<"/","f","o","o">>}
    IN  {pre \o suf : pre \in prefixes, suf \in {<<>>, <<"/","x">>}}

InHeaderEntries ==
    {<<"Host", "a.test">>, <<"host", "b.test">>, <<"Accept", "text/html">>,
     <<"Content-Length", "2">>}

UpHeaderEntries ==
    {<<"Transfer-Encoding", <<"chunked">> >>, <<"transfer-encoding", <<"chunked">> >>,
     <<"Connection", <<"close">> >>, <<"Content-Type", <<"text/html">> >>}

DefaultHeaders == << <<"Host", "a.test">>, <<"Content-Length", "2">> >>

DefaultResponse ==
    [outcome |-> "ok", code |-> 200,
     headers |-> << <<"Content-Type", <<"text/html">> >> >>, body |-> <<"upstream body">>]

Failure(kind) == [DefaultResponse EXCEPT !.outcome = kind]

RedirectKeys == { <<"/","f","o","o">>, <<"/","f","o","o","?","q">>, <<"/","_","a","p","i","/","x">> }
RedirectTargets == { <<"/","b","a","r">>, <<>> }

RoutePaths ==
    ReservedPaths \cup RedirectKeys
    \cup { <<"/","f","o","o","/">>, <<"/","f","o">>, <<"/","_","s","e","a","r","c","h","/","_","a","p","i">> }

\* the pieces request targets are put together from
Atoms == { <<"/">>, <<".">>, <<".",".">>, <<"%","2","e">>, <<"%","2","f">>, <<"x">>,
           <<"h","t","m","l">>, <<"j","s">>, <<"?">>, <<":">>, <<"%">> }

\* the traversal attempt /../../etc/passwd
TraversalPath == <<"/",".",".","/",".",".","/","e","t","c","/","p","a","s","s","w","d">>

\* the same attempt with the dots and a separator percent-encoded
EncodedTraversalPath == <<"/","%","2","e","%","2","e","%","2","f",".",".","/","/","e","t","c">>

StaticPaths ==
    ({concat(ss) : ss \in SeqsUpTo(Atoms, MaxAtoms)} \ {<<>>})
    \cup {TraversalPath, EncodedTraversalPath}

FsKinds == {"dir", "file", "asset", "missing"}

InitWith(purl, surl, raw, up, fsk, cmd, p, hs) ==
    /\ PORTAL_CLIENT_CLASS = get_http_client_info(purl)[1]
    /\ PORTAL_HOST = get_http_client_info(purl)[2]
    /\ SEARCH_CLIENT_CLASS = get_http_client_info(surl)[1]
    /\ SEARCH_HOST = get_http_client_info(surl)[2]
    /\ redirects = load_redirects(raw)
    /\ upstream = up
    /\ fs = fsk
    /\ command = cmd
    /\ raw_path = p
    /\ path = p
    /\ headers = hs
    /\ pc = "ready"
    /\ delegated = "none"
    /\ status = 0
    /\ sent_headers = <<>>
    /\ wbody = <<>>
    /\ calls = <<>>
    /\ raised = FALSE
    /\ file = <<>>

\* requests with any headers, against an upstream that fails or answers
Init ==
    \E purl \in PortalURLs, surl \in SearchURLs, cmd \in Commands, p \in ReservedPaths,
       hs \in SeqsUpTo(InHeaderEntries, MaxInHeaders),
       kind \in {"ok", "request_fails", "response_fails"} :
        InitWith(purl, surl, << <<AUTH_PATH_PREFIX, <<"/","b","a","r">> >> >>,
                 Failure(kind), "file", cmd, p, hs)

\* an upstream that answers with any status and headers
InitRelay ==
    \E purl \in PortalURLs, surl \in SearchURLs, cmd \in Commands, p \in ReservedPaths,
       code \in {200, 404}, uh \in SeqsUpTo(UpHeaderEntries, MaxUpHeaders) :
        InitWith(purl, surl, <<>>, [DefaultResponse EXCEPT !.code = code, !.headers = uh],
                 "file", cmd, p, DefaultHeaders)

\* any redirect table
InitRoute ==
    \E urls \in {<< <<>>, <<>> >>, << <<"http", "portal.test">>, <<"https", "search.test">> >>},
       cmd \in Commands, p \in RoutePaths, fsk \in {"file", "missing"},
       raw \in SeqsUpTo(RedirectKeys \X RedirectTargets, MaxRedirects) :
        InitWith(urls[1], urls[2], raw, DefaultResponse, fsk, cmd, p, DefaultHeaders)

\* any request target, over any file system
InitStatic ==
    \E cmd \in Commands, p \in StaticPaths, fsk \in FsKinds :
        InitWith(<<>>, <<"https", "search.test">>, <<>>, DefaultResponse, fsk, cmd, p,
                 DefaultHeaders)

Spec == Init /\ [][Next]_vars
SpecRelay == InitRelay /\ [][Next]_vars
SpecRoute == InitRoute /\ [][Next]_vars
SpecStatic == InitStatic /\ [][Next]_vars

----------------------------------------------------------------------------
(* properties                                                              *)

Done == pc = "done"

\* the upstream client and host a role is configured with
ClientOf(role) == IF role = "portal" THEN PORTAL_CLIENT_CLASS ELSE SEARCH_CLIENT_CLASS
HostOf(role) == IF role = "portal" THEN PORTAL_HOST ELSE SEARCH_HOST

\* the prefixes the routing claims name
ClaimedPortalPrefixes ==
    { <<"/","_","a","p","i","/","a","u","t","h","e","n","t","i","c","a","t","e">>,
      <<"/","_","p","o","r","t","a","l">>, <<"/","_","a","p","i">>,
      <<"/","_","p","u","b","l","i","c","a","t","i","o","n">>,
      <<"/","_","d","a","t","e">>, <<"/","_","c","o","m","p","a","r","e">> }
ClaimedSearchPrefix == <<"/","_","s","e","a","r","c","h">>

PortalPrefixed(p) == \E pre \in ClaimedPortalPrefixes : startswith(p, pre)
SearchPrefixed(p) == startswith(p, ClaimedSearchPrefix)

HasLocation == \E i \in 1..Len(sent_headers) : sent_headers[i][1] = "Location"

\* C1: a proxied request to a configured upstream whose outbound exchange
\* fails, while the request is sent or while the response is awaited, is
\* answered with HTTP 500.
C1_TransportFailureAnswered500 ==
    (/\ Done
     /\ delegated # "none"
     /\ ClientOf(delegated) # None
     /\ calls # <<>>
     /\ upstream.outcome \in {"request_fails", "response_fails"})
    => status = 500

C3_FailureBodyNamesUpstream ==
    (/\ Done
     /\ delegated # "none"
     /\ upstream.outcome = "response_fails"
     /\ status = 500)
    => /\ ~raised
       /\ Contains(wbody, HostOf(delegated))
       /\ Contains(wbody, client_scheme(ClientOf(delegated)))

\* C4: a successful exchange is relayed with the upstream status and every
\* upstream header except Transfer-Encoding and Connection, whose names are
\* matched in any letter case.
C4_RelayDropsHopHeaders ==
    (/\ Done
     /\ delegated # "none"
     /\ calls # <<>>
     /\ upstream.outcome = "ok")
    => /\ status = upstream.code
       /\ \A i \in 1..Len(sent_headers) :
              lower(sent_headers[i][1]) \notin {"transfer-encoding", "connection"}
       /\ sent_headers =
              SelectSeq(upstream.headers,
                        LAMBDA h : lower(h[1]) \notin {"transfer-encoding", "connection"})

\* C5: the outbound headers are the inbound ones without the Host header, in
\* whatever case the client named it, plus X-Forwarded-For, X-Forwarded-Proto
\* http and X-Forwarded-Host with the inbound Host value; the inbound Host is
\* never the Host sent to the upstream.
C5_OutboundHeaders ==
    (Done /\ calls # <<>>) =>
        LET out == calls[1].headers
            forwarded == {"X-Forwarded-For", "X-Forwarded-Host", "X-Forwarded-Proto"}
            kept == {k \in msg_keys(headers) : lower(k) # "host"}
        IN  /\ DOMAIN out = kept \cup forwarded
            /\ \A k \in kept \ forwarded : out[k] = msg_get(headers, k)
            /\ out["X-Forwarded-Proto"] = "http"
            /\ out["X-Forwarded-Host"] = msg_get(headers, "Host")
            /\ calls[1].wire_host = HostOf(delegated)

\* C6: a GET under no reserved prefix is answered 302, with Location
\* http://<address>:<port><target>, exactly when the raw request path is a key
\* of the redirect table, whatever the target stored; any other path goes to
\* static file serving.
C6_RedirectIffKey ==
    (Done /\ command = "GET" /\ ~PortalPrefixed(raw_path) /\ ~SearchPrefixed(raw_path)) =>
        IF raw_path \in DOMAIN redirects
        THEN /\ status = 302
             /\ sent_headers =
                  << <<"Location", <<"http://", server_address[1], ":", server_address[2]>>
                                   \o redirects[raw_path]>> >>
             /\ file = <<>>
        ELSE ~HasLocation /\ file # <<>>

\* C7: a GET under a portal prefix is handled by the portal upstream only, a
\* GET under /_search by the search upstream only, and neither uses the
\* redirect table or static file serving, also when the path is a redirect key.
C7_RoutingExclusive ==
    (Done /\ command = "GET") =>
        /\ PortalPrefixed(raw_path) =>
              /\ delegated = "portal"
              /\ \A i \in 1..Len(calls) :
                    calls[i].host = PORTAL_HOST /\ calls[i].client = PORTAL_CLIENT_CLASS
              /\ ~HasLocation
              /\ file = <<>>
        /\ SearchPrefixed(raw_path) =>
              /\ delegated = "search"
              /\ \A i \in 1..Len(calls) :
                    calls[i].host = SEARCH_HOST /\ calls[i].client = SEARCH_CLIENT_CLASS
              /\ ~HasLocation
              /\ file = <<>>

C7_Witness ==
    /\ Done
    /\ command = "GET"
    /\ raw_path = <<"/","_","a","p","i","/","x">>
    /\ raw_path \in DOMAIN redirects
    /\ redirects[raw_path] # <<>>
    /\ delegated = "portal"
    /\ Len(calls) = 1
    /\ calls[1].host = "portal.test"
    /\ SEARCH_HOST = "search.test"

\* the path ends in a dot followed by a recognised extension
EndsInRecognisedExtension(p) == \E ft \in filetypes : endswith(p, <<".">> \o ft)

\* C8: a GET that reaches static file serving resolves P + ".html" when P
\* neither ends in "/" nor ends in a recognised extension, and P unchanged
\* otherwise.
C8_DefaultExtension ==
    (Done /\ command = "GET" /\ file # <<>>) =>
        path = IF ~endswith(raw_path, <<"/">>) /\ ~EndsInRecognisedExtension(raw_path)
               THEN raw_path \o <<".","h","t","m","l">>
               ELSE raw_path

C8_Witness ==
    /\ Done
    /\ command = "GET"
    /\ raw_path = <<"x", ".", "x">>
    /\ path = <<"x", ".", "x", ".", "h", "t", "m", "l">>
    /\ file # <<>>

RECURSIVE walk(_, _)
\* where a file system without links arrives following the components
\* from the root: ".." goes up one level and stays at the root
walk(comps, at) ==
    IF comps = <<>> THEN at
    ELSE IF Head(comps) \in {<<>>, <<".">>} THEN walk(Tail(comps), at)
    ELSE IF Head(comps) = <<".", ".">>
    THEN walk(Tail(comps), IF at = <<>> THEN at ELSE SubSeq(at, 1, Len(at) - 1))
    ELSE walk(Tail(comps), Append(at, Head(comps)))

\* the location f, an absolute path, lies in directory root or is root
Inside(f, root) ==
    LET fc == walk(split(f, "/"), <<>>)
        rc == walk(split(root, "/"), <<>>)
    IN  startswith(f, <<"/">>) /\ Len(rc) <= Len(fc) /\ SubSeq(fc, 1, Len(rc)) = rc

\* C9: whatever the request path and the file system hold, the location
\* translate_path returns lies inside the document root or the static-assets
\* root.
C9_TranslatedInsideRoots ==
    (Done /\ file # <<>>) => (Inside(file, DIR) \/ Inside(file, STATIC_ASSETS_DIR))

C9_Witness ==
    /\ Done
    /\ raw_path = TraversalPath
    /\ fs = "missing"
    /\ file = DIR \o <<"/","e","t","c","/","p","a","s","s","w","d",".","h","t","m","l">>

\* C10: a POST is delegated to the portal proxy, with the body read from the
\* request, exactly when its path is /_api/authenticate; any other POST makes
\* no outbound call and gets no response.
C10_PostOnlyAuthenticate ==
    (Done /\ command = "POST") =>
        IF raw_path = <<"/","_","a","p","i","/","a","u","t","h","e","n","t","i","c","a","t","e">>
        THEN /\ delegated = "portal"
             /\ \A i \in 1..Len(calls) :
                   calls[i].body = rfile_read(int_of(msg_get(headers, "Content-Length")))
        ELSE /\ delegated = "none"
             /\ calls = <<>>
             /\ status = 0
             /\ wbody = <<>>

====
